---------------------------- MODULE Spec2Model ----------------------------
(***************************************************************************)
(* Model of the account workflow of the worktree backend: registration,    *)
(* email verification, login, password reset and the email service,        *)
(* translated from src/backend/apps/users and src/backend/apps/core/email. *)
(*                                                                         *)
(* Text values (emails, names, passwords, codes) are sequences of          *)
(* one-character strings.  Python's None (a NULL column, a field missing   *)
(* from the request data) is the value NULL.                               *)
(***************************************************************************)
EXTENDS Integers, Sequences, FiniteSets, Bags, TLC

VARIABLES
    users,      \* the users table: row pk is users[pk]
    companies,  \* the companies table
    tokens,     \* the authtoken table: the pks of the users that own a token
    now,        \* the clock, timezone.now(), in minutes
    resp,       \* the response the last step gave, and the pk of the user it was about
    outbox,     \* the emails the last step gave to the transport
    issued,     \* per user: the code generate_verification_code returned last, when,
                \* and whether verify_email has run since
    inflight,   \* the bag of requests being handled concurrently
    mailbox,    \* the password-reset links the account owners have received, and
                \* whether the password has been reset since
    mail        \* a call of EmailService.send: its arguments, then its outcome

vars == <<users, companies, tokens, now, resp, outbox, issued, inflight, mailbox, mail>>

-----------------------------------------------------------------------------
(* Bounds of the model *)

\* the clock stops at MaxTime minutes
MaxTime == 16
\* generated codes use the digits DIGITS[1] .. DIGITS[MaxDigit + 1]
MaxDigit == 1
\* the number of requests that may be in flight at once
MaxInflight == 2
\* the number of times the password of one user is reset
MaxPasswordChanges == 1
\* the number of password-reset links the account owners keep
MaxLinks == 2
\* the number of threads that call get_email_service
MaxThreads == 3

-----------------------------------------------------------------------------
(* Values *)

NULL == <<"NULL">>

\* Python truthiness of an optional text value: None and "" are falsy
Falsy(x) == x = NULL \/ x = <<>>

\* string.digits
DIGITS == <<"0", "1", "2", "3", "4", "5", "6", "7", "8", "9">>

\* k = 6 in random.choices(string.digits, k=6)
CODE_LENGTH == 6

\* User.VERIFICATION_CODE_EXPIRY_MINUTES
VERIFICATION_CODE_EXPIRY_MINUTES == 15

IsDigit(c) == \E i \in 1..Len(DIGITS) : DIGITS[i] = c

IsDigits(s) == \A i \in 1..Len(s) : IsDigit(s[i])

\* str.lower(), on the letters the model uses
LowerChar(c) ==
    CASE c = "A" -> "a"
      [] c = "B" -> "b"
      [] c = "X" -> "x"
      [] OTHER -> c

Lower(s) == [i \in 1..Len(s) |-> LowerChar(s[i])]

\* serializers.EmailField: a local part, one "@", a domain
IsEmailFormat(s) ==
    /\ s # NULL
    /\ Cardinality({i \in 1..Len(s) : s[i] = "@"}) = 1
    /\ s[1] # "@"
    /\ s[Len(s)] # "@"


-----------------------------------------------------------------------------
(* Inputs of the requests *)

EmailA == <<"a", "@", "x">>
EmailB == <<"b", "@", "x">>
EmailUpperA == <<"A", "@", "X">>
EmailMalformed == <<"a", "x">>

NameJ == <<"J", "o">>

\* "testpass" is accepted by the password validators, "pass" is too short
\* and "123456" is entirely numeric
PasswordGood == <<"t", "e", "s", "t", "p", "a", "s", "s">>
PasswordShort == <<"p", "a", "s", "s">>
PasswordNumeric == <<"1", "2", "3", "4", "5", "6">>

\* what random.choices(string.digits, k=6) may draw, within the bound
DrawnCodes == {[i \in 1..CODE_LENGTH |-> DIGITS[d]] : d \in 1..(MaxDigit + 1)}

CodeShort == <<"1", "2", "3", "4", "5">>
CodeLong == <<"0", "0", "0", "0", "0", "0", "0">>

RegisterNames == {NULL, <<>>, NameJ}
RegisterEmails == {NULL, EmailMalformed, EmailA, EmailUpperA, EmailB}
RegisterPasswords == {NULL, PasswordShort, PasswordNumeric, PasswordGood}

LoginEmails == {NULL, <<>>, EmailA, EmailB}
LoginPasswords == {NULL, <<>>, PasswordShort, PasswordGood}

RequestEmails == {NULL, EmailMalformed, EmailA, EmailUpperA, EmailB}
RequestCodes == DrawnCodes \cup {NULL, CodeShort, CodeLong}

\* the minutes the clock advances by in one step: up to the end of the
\* expiry window, or just past it
TickSteps == {VERIFICATION_CODE_EXPIRY_MINUTES, VERIFICATION_CODE_EXPIRY_MINUTES + 1}

-----------------------------------------------------------------------------
(* The User model *)

\* a NULL email_verification_code_created_at
NoTime == -1

\* the pk of the row with this email, 0 for User.DoesNotExist
FindByEmail(us, email) ==
    IF \E pk \in 1..Len(us) : us[pk].email = email
    THEN CHOOSE pk \in 1..Len(us) : us[pk].email = email
    ELSE 0

\* UserManager.create_user / the row the registration inserts: the model's
\* field defaults
NewUser(email, password, name) ==
    [email |-> email,
     password |-> password,
     password_salt |-> 0,
     name |-> name,
     is_active |-> TRUE,
     is_email_verified |-> FALSE,
     email_verification_code |-> NULL,
     email_verification_code_created_at |-> NoTime]

\* User.generate_verification_code: drawn is the outcome of random.choices
generate_verification_code(u, drawn, t) ==
    [u EXCEPT !.email_verification_code = drawn,
              !.email_verification_code_created_at = t]

\* is_verification_code_valid with the window closed at its last minute
is_verification_code_valid_strict(u, code, t) ==
    /\ ~Falsy(u.email_verification_code)
    /\ u.email_verification_code_created_at # NoTime
    /\ u.email_verification_code = code
    /\ t < u.email_verification_code_created_at + VERIFICATION_CODE_EXPIRY_MINUTES

\* is_verification_code_valid without the expiry check
is_verification_code_valid_no_expiry(u, code, t) ==
    /\ ~Falsy(u.email_verification_code)
    /\ u.email_verification_code_created_at # NoTime
    /\ u.email_verification_code = code

\* User.is_verification_code_valid, called at time t
is_verification_code_valid(u, code, t) ==
    IF \/ Falsy(u.email_verification_code)
       \/ u.email_verification_code_created_at = NoTime
    THEN FALSE
    ELSE IF u.email_verification_code # code
    THEN FALSE
    ELSE t <= u.email_verification_code_created_at
                + VERIFICATION_CODE_EXPIRY_MINUTES

\* verify_email that leaves the code and its timestamp in place
verify_email_keeps_code(u) == [u EXCEPT !.is_email_verified = TRUE]

\* User.verify_email
verify_email(u) ==
    [u EXCEPT !.is_email_verified = TRUE,
              !.email_verification_code = NULL,
              !.email_verification_code_created_at = NoTime]

\* the fields save(update_fields=[...]) of generate_verification_code writes
SaveCodeFields(row, u) ==
    [row EXCEPT !.email_verification_code = u.email_verification_code,
                !.email_verification_code_created_at =
                    u.email_verification_code_created_at]

\* the save of verify_email without update_fields: every column is written
SaveVerifyFields_all_fields(row, u) == u

\* the save of verify_email with update_fields=["is_email_verified"] only
SaveVerifyFields_flag_only(row, u) ==
    [row EXCEPT !.is_email_verified = u.is_email_verified]

\* the fields save(update_fields=[...]) of verify_email writes
SaveVerifyFields(row, u) ==
    [row EXCEPT !.is_email_verified = u.is_email_verified,
                !.email_verification_code = u.email_verification_code,
                !.email_verification_code_created_at =
                    u.email_verification_code_created_at]

-----------------------------------------------------------------------------
(* The email service *)

\* what send_email hands to the transport
Mail(to, template_name, context) ==
    [to |-> to, template_name |-> template_name, context |-> context]

VerifyMail(u, code) ==
    Mail(u.email, "auth/verify_email", [name |-> u.name, verification_code |-> code])

\* default_token_generator.make_token(user): bound to the pk and the
\* password hash (the password and the salt it was hashed with)
make_token(pk, u) ==
    [uid |-> pk, password |-> u.password, password_salt |-> u.password_salt]

\* str(pk), for the pks of the model
PkToStr(pk) == <<DIGITS[pk + 1]>>

\* int(s) of User.objects.get(pk=s): 0 for ValueError
StrToPk(s) ==
    IF s # NULL /\ Len(s) = 1 /\ IsDigit(s[1])
    THEN CHOOSE pk \in 0..9 : DIGITS[pk + 1] = s[1]
    ELSE 0

\* base64 of the one-character strings the model uses, without padding
Base64Table ==
    {<< <<"1">>, <<"M", "Q">> >>,
     << <<"2">>, <<"M", "g">> >>,
     << <<"3">>, <<"M", "w">> >>,
     << <<"9">>, <<"O", "Q">> >>,
     << <<"a">>, <<"Y", "Q">> >>}

\* urlsafe_base64_encode(force_bytes(s))
urlsafe_base64_encode(s) == (CHOOSE e \in Base64Table : e[1] = s)[2]

\* force_str(urlsafe_base64_decode(uid)): NULL for ValueError
urlsafe_base64_decode(uid) ==
    IF \E e \in Base64Table : e[2] = uid
    THEN (CHOOSE e \in Base64Table : e[2] = uid)[1]
    ELSE NULL

\* f"{settings.SITE_URL}/reset-password/{uid}/{token}"
ResetUrl(pk, u) ==
    [uid |-> urlsafe_base64_encode(PkToStr(pk)), token |-> make_token(pk, u)]

\* the reset email without a recipient
ResetMail_unaddressed(pk, u) ==
    Mail(<<>>, "auth/password_reset",
         [user |-> pk, password_reset_url |-> ResetUrl(pk, u)])

ResetMail(pk, u) ==
    Mail(u.email, "auth/password_reset",
         [user |-> pk, password_reset_url |-> ResetUrl(pk, u)])

\* a response: its status and body, and the pk of the user row the handler
\* loaded or inserted (0 when none)
Response(op, status, body, pk) == [op |-> op, status |-> status, body |-> body, user |-> pk]

\* the response to a request whose handler raised (EmailSendError)
ServerError(op, pk) == Response(op, 500, [detail |-> "error"], pk)

\* no call of EmailService.send
NoCall == [stage |-> "none"]

\* no request was handled in the last step
NoResponse == Response("none", 0, [detail |-> ""], 0)

-----------------------------------------------------------------------------
(* Registration: CustomRegisterSerializer *)

\* the shortest password the password validators accept
MIN_PASSWORD_LENGTH == 8

\* the password validators: not too short, not entirely numeric
PasswordAccepted(p) == Len(p) >= MIN_PASSWORD_LENGTH /\ ~IsDigits(p)

\* validate_email without the lowercasing
validate_email_as_given(email) == email

\* CustomRegisterSerializer.validate_email: the email as it is looked up
\* and stored
validate_email(email) == Lower(email)

\* the unique constraint on User.email: whether a row with this email can be
\* inserted
EmailUnique(us, email) == FindByEmail(us, email) = 0

\* is_valid(): the fields the field validators, validate_email and validate
\* report an error for
RegisterErrors(us, name, email, password) ==
    {f \in {"name"} : Falsy(name)}
    \cup {f \in {"email"} :
            \/ ~IsEmailFormat(email)
            \/ FindByEmail(us, validate_email(email)) # 0}
    \cup {f \in {"password1"} : Falsy(password) \/ ~PasswordAccepted(password)}

\* is_valid() without the checks of the name
RegisterValid_any_name(us, name, email, password) ==
    RegisterErrors(us, name, email, password) \ {"name"} = {}

\* is_valid()
RegisterValid(us, name, email, password) ==
    RegisterErrors(us, name, email, password) = {}

\* f"{user.name}'s Company"
CompanyName(name) == name \o <<"'", "s", " ", "C", "o", "m", "p", "a", "n", "y">>

\* the company created without company.members.add(user)
NewCompany_no_member(name, pk, t) ==
    [name |-> name \o <<"'", "s", " ", "C", "o", "m", "p", "a", "n", "y">>,
     logo |-> NULL,
     admin |-> pk,
     members |-> {},
     created_at |-> t,
     updated_at |-> t]

\* the company created with the first user as its admin
NewCompany_first_admin(name, pk, t) ==
    [name |-> name \o <<"'", "s", " ", "C", "o", "m", "p", "a", "n", "y">>,
     logo |-> NULL,
     admin |-> 1,
     members |-> {pk},
     created_at |-> t,
     updated_at |-> t]

\* Company.objects.create(name=..., admin=user); company.members.add(user)
\* at time t
NewCompany(name, pk, t) ==
    [name |-> CompanyName(name),
     logo |-> NULL,
     admin |-> pk,
     members |-> {pk},
     created_at |-> t,
     updated_at |-> t]

\* the statuses a successful registration is answered with
RegisterStatuses == {201, 204}

\* CustomRegisterSerializer.save on validated data: the rows it inserts, the
\* code it generates, the email it sends; the insert of the user raises
\* IntegrityError when the email is taken by then
RegisterSave(name, email, password, drawn, ok, status) ==
    LET pk == Len(users) + 1
        user == generate_verification_code(NewUser(email, password, name), drawn, now)
    IN  IF ~EmailUnique(users, email)
        THEN /\ resp' = ServerError("register", 0)
             /\ outbox' = <<>>
             /\ UNCHANGED <<users, companies, tokens, now, issued>>
        ELSE /\ users' = Append(users, user)
             /\ companies' = Append(companies, NewCompany(name, pk, now))
             /\ issued' = Append(issued, [code |-> drawn, at |-> now, used |-> FALSE])
             /\ outbox' = <<VerifyMail(user, drawn)>>
             /\ resp' = IF ok
                        THEN Response("register", status, [detail |-> "registered"], pk)
                        ELSE ServerError("register", pk)
             /\ UNCHANGED <<tokens, now>>

\* the 400 response to a registration that is not valid
RegisterRejected(name, email, password) ==
    /\ resp' = Response("register", 400,
                        [errors |-> RegisterErrors(users, name, email, password)], 0)
    /\ outbox' = <<>>
    /\ UNCHANGED <<users, companies, tokens, now, issued>>

\* POST /api/auth/registration/
Register(name, email, password, drawn, ok, status) ==
    /\ IF RegisterValid(users, name, email, password)
       THEN RegisterSave(name, validate_email(email), password, drawn, ok, status)
       ELSE RegisterRejected(name, email, password)
    /\ UNCHANGED <<inflight, mailbox, mail>>

-----------------------------------------------------------------------------
(* Login: LoginView *)

\* the credential check without the is_active check
Authenticate_ignores_active(us, email, password) ==
    IF Falsy(email) \/ Falsy(password)
    THEN 0
    ELSE LET pk == FindByEmail(us, email)
         IN  IF pk # 0 /\ us[pk].password = password THEN pk ELSE 0

\* the LoginSerializer's credential check: the pk of the authenticated user,
\* 0 when is_valid() raises
Authenticate(us, email, password) ==
    IF Falsy(email) \/ Falsy(password)
    THEN 0
    ELSE LET pk == FindByEmail(us, email)
         IN  IF pk # 0 /\ us[pk].password = password /\ us[pk].is_active
             THEN pk
             ELSE 0

\* LoginView.post without the is_email_verified check
LoginResponse_unchecked(us, email, password) ==
    LET pk == Authenticate(us, email, password)
    IN  IF pk = 0
        THEN Response("login", 400,
                      [detail |-> "Unable to log in with provided credentials."],
                      IF Falsy(email) THEN 0 ELSE FindByEmail(us, email))
        ELSE Response("login", 200, [key |-> pk], pk)

\* the response LoginView.post gives
LoginResponse(us, email, password) ==
    LET pk == Authenticate(us, email, password)
    IN  IF pk = 0
        THEN Response("login", 400,
                      [detail |-> "Unable to log in with provided credentials."],
                      IF Falsy(email) THEN 0 ELSE FindByEmail(us, email))
        ELSE IF ~us[pk].is_email_verified
        THEN Response("login", 403,
                      [email_not_verified |-> TRUE,
                       email |-> us[pk].email,
                       detail |-> "Please verify your email before logging in."],
                      pk)
        ELSE Response("login", 200, [key |-> pk], pk)

\* POST /api/auth/login/
Login(email, password) ==
    /\ resp' = LoginResponse(users, email, password)
    /\ tokens' = IF resp'.status = 200 THEN tokens \cup {resp'.body.key} ELSE tokens
    /\ outbox' = <<>>
    /\ UNCHANGED <<users, companies, now, issued, inflight, mailbox, mail>>

-----------------------------------------------------------------------------
(* Email verification: VerifyEmailView, ResendVerificationView *)

\* min_length = max_length = 6 of VerifyEmailSerializer.code
CODE_FIELD_LENGTH == 6

\* validate_email of the verify, resend and password-reset serializers
NormalizeEmail(email) == Lower(email)

\* VerifyEmailSerializer.is_valid()
VerifyRequestValid(email, code) ==
    /\ IsEmailFormat(email)
    /\ code # NULL
    /\ Len(code) = CODE_FIELD_LENGTH

\* the checks of VerifyEmailView.post at time t: the detail of the 400
\* response, "" when the request passes them all
VerifyError(us, email, code, t) ==
    IF ~VerifyRequestValid(email, code)
    THEN "invalid"
    ELSE LET pk == FindByEmail(us, NormalizeEmail(email))
         IN  IF pk = 0
             THEN "Invalid email or verification code."
             ELSE IF us[pk].is_email_verified
             THEN "Email is already verified."
             ELSE IF ~is_verification_code_valid(us[pk], code, t)
             THEN "Invalid or expired verification code."
             ELSE ""

\* nothing issued: no code generated yet
NoIssue == [code |-> NULL, at |-> NoTime, used |-> FALSE]

\* nothing issued since verify_email ran
Used == [code |-> NULL, at |-> NoTime, used |-> TRUE]

\* get_or_create that creates nothing
GetOrCreateToken_get_only(toks, pk) == toks

\* Token.objects.get_or_create(user=user)
GetOrCreateToken(toks, pk) == toks \cup {pk}

\* POST /api/auth/verify-email/
VerifyEmail(email, code) ==
    /\ LET err == VerifyError(users, email, code, now)
           pk == FindByEmail(users, NormalizeEmail(email))
       IN  IF err # ""
           THEN /\ resp' = Response("verify", 400, [detail |-> err],
                                    IF VerifyRequestValid(email, code) THEN pk ELSE 0)
                /\ UNCHANGED <<users, tokens, issued>>
           ELSE /\ users' = [users EXCEPT ![pk] = SaveVerifyFields(@, verify_email(@))]
                /\ tokens' = GetOrCreateToken(tokens, pk)
                /\ issued' = [issued EXCEPT ![pk] = Used]
                /\ resp' = Response("verify", 200,
                                    [detail |-> "Email verified successfully.",
                                     key |-> pk],
                                    pk)
    /\ outbox' = <<>>
    /\ UNCHANGED <<companies, now, inflight, mailbox, mail>>

\* whether ResendVerificationView.post reaches generate_verification_code
ResendGenerates(us, email) ==
    /\ IsEmailFormat(email)
    /\ FindByEmail(us, NormalizeEmail(email)) # 0
    /\ ~us[FindByEmail(us, NormalizeEmail(email))].is_email_verified

\* POST /api/auth/resend-verification/
ResendVerification(email, drawn, ok) ==
    /\ LET pk == FindByEmail(users, NormalizeEmail(email))
       IN  IF ~IsEmailFormat(email)
           THEN /\ resp' = Response("resend", 400, [detail |-> "invalid"], 0)
                /\ outbox' = <<>>
                /\ UNCHANGED <<users, issued>>
           ELSE IF pk = 0
           THEN /\ resp' = Response("resend", 200,
                    [detail |-> "If an account exists with this email, a verification code has been sent."],
                    0)
                /\ outbox' = <<>>
                /\ UNCHANGED <<users, issued>>
           ELSE IF users[pk].is_email_verified
           THEN /\ resp' = Response("resend", 400, [detail |-> "Email is already verified."], pk)
                /\ outbox' = <<>>
                /\ UNCHANGED <<users, issued>>
           ELSE LET user == generate_verification_code(users[pk], drawn, now)
                IN  /\ users' = [users EXCEPT ![pk] = SaveCodeFields(@, user)]
                    /\ issued' = [issued EXCEPT ![pk] = [code |-> drawn, at |-> now, used |-> FALSE]]
                    /\ outbox' = <<VerifyMail(user, drawn)>>
                    /\ resp' = IF ok
                               THEN Response("resend", 200, [detail |-> "Verification code sent."], pk)
                               ELSE ServerError("resend", pk)
    /\ UNCHANGED <<companies, tokens, now, inflight, mailbox, mail>>

-----------------------------------------------------------------------------
(* Password reset request: PasswordResetView *)

\* whether PasswordResetView.post reaches send_email
PasswordResetSends(us, email) ==
    IsEmailFormat(email) /\ FindByEmail(us, NormalizeEmail(email)) # 0

\* the response PasswordResetView.post gives; ok is whether the transport
\* accepted the email
PasswordResetResponse(us, email, ok) ==
    LET pk == FindByEmail(us, NormalizeEmail(email))
    IN  IF ~IsEmailFormat(email)
        THEN Response("reset", 400, [detail |-> "invalid"], 0)
        ELSE IF pk = 0
        THEN Response("reset", 200,
                 [detail |-> "If an account exists with this email, a password reset link has been sent."],
                 0)
        ELSE IF ok
        THEN Response("reset", 200,
                 [detail |-> "If an account exists with this email, a password reset link has been sent."],
                 pk)
        ELSE ServerError("reset", pk)

\* POST /api/auth/password/reset/
PasswordReset(email, ok) ==
    /\ LET pk == FindByEmail(users, NormalizeEmail(email))
       IN  /\ resp' = PasswordResetResponse(users, email, ok)
           /\ outbox' = IF IsEmailFormat(email) /\ pk # 0
                        THEN <<ResetMail(pk, users[pk])>>
                        ELSE <<>>
    /\ UNCHANGED <<users, companies, tokens, now, issued, inflight, mailbox, mail>>

-----------------------------------------------------------------------------
(* Password reset confirm: PasswordResetConfirmView *)

\* min_length of PasswordResetConfirmSerializer.new_password
NEW_PASSWORD_MIN_LENGTH == 8

\* a request without the token field, and a token no user was issued
MissingToken == [missing |-> TRUE]
GarbageToken == [garbage |-> TRUE]

PasswordOther == <<"n", "e", "w", "p", "a", "s", "s", "1">>

\* the uid of user 1, of user 2, of no user ("9"), of no number ("a"), not
\* base64 at all
ConfirmUids ==
    {NULL,
     urlsafe_base64_encode(PkToStr(1)),
     urlsafe_base64_encode(PkToStr(2)),
     <<"O", "Q">>,
     <<"Y", "Q">>,
     <<"!">>}

ConfirmPasswords == {NULL, PasswordShort, PasswordGood, PasswordOther}

\* the tokens a request may carry: those make_token can have returned for a
\* user of the model, a token never issued, none
ConfirmTokens ==
    {MissingToken, GarbageToken}
    \cup {[uid |-> pk, password |-> p, password_salt |-> k] :
            pk \in 1..2, p \in {PasswordGood, PasswordOther},
            k \in 0..MaxPasswordChanges}

\* is_valid() without min_length
ConfirmRequestValid_any_length(uid, token, new_password) ==
    /\ ~Falsy(uid)
    /\ token # MissingToken
    /\ ~Falsy(new_password)

\* PasswordResetConfirmSerializer.is_valid()
ConfirmRequestValid(uid, token, new_password) ==
    /\ ~Falsy(uid)
    /\ token # MissingToken
    /\ ~Falsy(new_password)
    /\ Len(new_password) >= NEW_PASSWORD_MIN_LENGTH

\* force_str(urlsafe_base64_decode(uid)) and User.objects.get(pk=user_id):
\* the pk of the user, 0 when either raises
ConfirmUser(us, uid) ==
    LET user_id == urlsafe_base64_decode(uid)
        pk == IF user_id = NULL THEN 0 ELSE StrToPk(user_id)
    IN  IF pk \in 1..Len(us) THEN pk ELSE 0

\* check_token that looks at the pk only
check_token_any_password(pk, u, token) ==
    /\ "uid" \in DOMAIN token
    /\ token.uid = pk

\* default_token_generator.check_token(user, token)
check_token(pk, u, token) == token = make_token(pk, u)

\* set_password that also takes the reset for a proof of the email address
set_password_and_verify(u, new_password) ==
    [u EXCEPT !.password = new_password, !.password_salt = @ + 1,
              !.is_email_verified = TRUE]

\* user.set_password(new_password): the password hashed with a salt not
\* used for this user before
set_password(u, new_password) ==
    [u EXCEPT !.password = new_password, !.password_salt = @ + 1]

\* whether PasswordResetConfirmView.post reaches set_password
ConfirmAccepted(us, uid, token, new_password) ==
    /\ ConfirmRequestValid(uid, token, new_password)
    /\ ConfirmUser(us, uid) # 0
    /\ check_token(ConfirmUser(us, uid), us[ConfirmUser(us, uid)], token)

\* the response PasswordResetConfirmView.post gives
PasswordResetConfirmResponse(us, uid, token, new_password) ==
    IF ~ConfirmRequestValid(uid, token, new_password)
    THEN Response("confirm", 400, [detail |-> "invalid"], 0)
    ELSE IF ~ConfirmAccepted(us, uid, token, new_password)
    THEN Response("confirm", 400,
                  [detail |-> "Invalid or expired password reset link."],
                  ConfirmUser(us, uid))
    ELSE Response("confirm", 200,
                  [detail |-> "Password has been reset successfully."],
                  ConfirmUser(us, uid))

\* the links of user pk that the owners hold become links issued before a
\* password change
MarkStale(box, pk) ==
    {IF l.token.uid = pk THEN [l EXCEPT !.stale = TRUE] ELSE l : l \in box}

\* POST /api/auth/password/reset/confirm/
PasswordResetConfirm(uid, token, new_password) ==
    /\ LET pk == ConfirmUser(users, uid)
       IN  IF ConfirmAccepted(users, uid, token, new_password)
           THEN /\ users[pk].password_salt < MaxPasswordChanges
                /\ users' = [users EXCEPT ![pk] = set_password(@, new_password)]
                /\ mailbox' = MarkStale(mailbox, pk)
           ELSE UNCHANGED <<users, mailbox>>
    /\ resp' = PasswordResetConfirmResponse(users, uid, token, new_password)
    /\ outbox' = <<>>
    /\ UNCHANGED <<companies, tokens, now, issued, inflight, mail>>

-----------------------------------------------------------------------------
(* The my-company endpoint: MyCompanyView, CompanySerializer *)

\* max_length of Company.name
COMPANY_NAME_MAX_LENGTH == 255

\* a field that is not in the request data
AbsentField == <<"ABSENT">>

NameK == <<"K", "i">>
NameTooLong == [i \in 1..(COMPANY_NAME_MAX_LENGTH + 1) |-> "x"]

\* an uploaded image, and an uploaded file that is not an image
LogoImage == <<"l", "o", "g", "o", ".", "p", "n", "g">>
LogoNotAnImage == <<"n", "o", "t", "e", "s", ".", "t", "x", "t">>

\* the request data of a PATCH: name and logo are fields of the serializer,
\* admin is not
PatchData ==
    [name : {AbsentField, <<>>, NameK, NameTooLong},
     logo : {AbsentField, LogoImage, LogoNotAnImage},
     admin : {AbsentField, PkToStr(1)}]

\* TokenAuthentication and IsAuthenticated: the requester is an active user
\* with a token
Authenticated(pk) ==
    /\ pk \in 1..Len(users)
    /\ pk \in tokens
    /\ users[pk].is_active

\* Company.objects.get(admin=request.user): the id of the company, 0 for
\* DoesNotExist, -1 for MultipleObjectsReturned
MyCompany(cs, pk) ==
    LET mine == {c \in 1..Len(cs) : cs[c].admin = pk}
    IN  IF mine = {} THEN 0
        ELSE IF Cardinality(mine) > 1 THEN -1
        ELSE CHOOSE c \in mine : TRUE

\* CompanySerializer(company).data
CompanyData(c, company) ==
    [id |-> c,
     name |-> company.name,
     logo |-> company.logo,
     created_at |-> company.created_at,
     updated_at |-> company.updated_at]

\* CompanySerializer(company, data=..., partial=True).is_valid(): the fields
\* with an error
PatchErrors(data) ==
    {f \in {"name"} :
        /\ data.name # AbsentField
        /\ (data.name = <<>> \/ Len(data.name) > COMPANY_NAME_MAX_LENGTH)}
    \cup {f \in {"logo"} : data.logo = LogoNotAnImage}

\* serializer.save() that also takes the admin from the request data
PatchedCompany_with_admin(company, data, t) ==
    [company EXCEPT
        !.name = IF data.name = AbsentField THEN @ ELSE data.name,
        !.logo = IF data.logo = AbsentField THEN @ ELSE data.logo,
        !.admin = IF data.admin = AbsentField THEN @ ELSE StrToPk(data.admin),
        !.updated_at = t]

\* serializer.save() at time t: the validated fields, and updated_at
\* (auto_now)
PatchedCompany(company, data, t) ==
    [company EXCEPT
        !.name = IF data.name = AbsentField THEN @ ELSE data.name,
        !.logo = IF data.logo = AbsentField THEN @ ELSE data.logo,
        !.updated_at = t]

\* GET /api/companies/my/ by the authenticated user pk
GetMyCompany(pk) ==
    /\ Authenticated(pk)
    /\ LET c == MyCompany(companies, pk)
       IN  resp' = IF c = 0
                   THEN Response("get_company", 404,
                                 [detail |-> "No company found for this user."], pk)
                   ELSE IF c = -1
                   THEN ServerError("get_company", pk)
                   ELSE Response("get_company", 200, CompanyData(c, companies[c]), pk)
    /\ outbox' = <<>>
    /\ UNCHANGED <<users, companies, tokens, now, issued, inflight, mailbox, mail>>

\* PATCH /api/companies/my/ by the authenticated user pk
PatchMyCompany(pk, data) ==
    /\ Authenticated(pk)
    /\ LET c == MyCompany(companies, pk)
       IN  IF c = 0
           THEN /\ resp' = Response("patch_company", 404,
                                    [detail |-> "No company found for this user."], pk)
                /\ UNCHANGED companies
           ELSE IF c = -1
           THEN /\ resp' = ServerError("patch_company", pk)
                /\ UNCHANGED companies
           ELSE IF PatchErrors(data) # {}
           THEN /\ resp' = Response("patch_company", 400,
                                    [errors |-> PatchErrors(data)], pk)
                /\ UNCHANGED companies
           ELSE /\ companies' = [companies EXCEPT
                                    ![c] = PatchedCompany(@, data, now)]
                /\ resp' = Response("patch_company", 200,
                                    CompanyData(c, companies'[c]), pk)
    /\ outbox' = <<>>
    /\ UNCHANGED <<users, tokens, now, issued, inflight, mailbox, mail>>

\* User.objects.create_user and Token.objects.create outside the
\* registration endpoint: a user with a token and without a company
CreateUserWithToken(email, password, name) ==
    /\ EmailUnique(users, Lower(email))
    /\ users' = Append(users, NewUser(Lower(email), password, name))
    /\ issued' = Append(issued, NoIssue)
    /\ tokens' = tokens \cup {Len(users) + 1}
    /\ resp' = NoResponse
    /\ outbox' = <<>>
    /\ UNCHANGED <<companies, now, inflight, mailbox, mail>>

-----------------------------------------------------------------------------
(* EmailService.send *)

\* a template file that does not exist
TemplateMissing == <<"TemplateDoesNotExist">>

\* template files: text and variables
HtmlTemplate == <<[text |-> "<p>"], [var |-> "site_name"], [text |-> "</p>"]>>
TextTemplate == <<[text |-> "Hello from "], [var |-> "site_name"]>>
EmptyTemplate == <<>>

\* the context a caller passes
NoContext == [k \in {} |-> ""]
Contexts ==
    {NoContext,
     [site_name |-> "Acme"],
     [user_name |-> "John"],
     [user_name |-> "John", site_name |-> "Acme", current_year |-> 1999]}

\* the recipients a caller passes: one address or a list
Recipients ==
    {[str |-> EmailA], [list |-> <<EmailA>>], [list |-> <<EmailA, EmailB>>]}

EmailPriority == {"low", "normal", "high"}

\* what the transport does with a message handed to it
TransportOutcomes == {"accepts", "fails"}

\* nothing was handed to the transport
NoMessage == [handed |-> FALSE]

\* a call of send on a service constructed with fail_silently
MailCalls ==
    [stage : {"called"},
     fail_silently : BOOLEAN,
     html : {TemplateMissing, EmptyTemplate, HtmlTemplate},
     txt : {TemplateMissing, TextTemplate},
     context : Contexts,
     to : Recipients,
     priority : EmailPriority,
     transport : TransportOutcomes]

\* datetime.datetime.now().year
CurrentYear == 2026

\* the defaults of _build_context, with the fallbacks of getattr(settings, ...)
ContextDefaults ==
    [site_name |-> "Ticketing",
     site_url |-> "http://localhost:3000",
     support_email |-> "noreply@localhost",
     current_year |-> CurrentYear]

\* {**context, **defaults}
_build_context_defaults_win(context) ==
    [k \in DOMAIN ContextDefaults \cup DOMAIN context |->
        IF k \in DOMAIN ContextDefaults THEN ContextDefaults[k] ELSE context[k]]

\* {**defaults, **context}
_build_context(context) ==
    [k \in DOMAIN ContextDefaults \cup DOMAIN context |->
        IF k \in DOMAIN context THEN context[k] ELSE ContextDefaults[k]]

\* render_to_string: the variables replaced by their values in the context,
\* by nothing when the context has none
render_to_string(template, context) ==
    [i \in DOMAIN template |->
        IF "var" \in DOMAIN template[i]
        THEN IF template[i].var \in DOMAIN context
             THEN context[template[i].var] ELSE ""
        ELSE template[i].text]

\* _render_template that takes a missing template of either extension for
\* no content
_render_template_tolerant(template, extension, context) ==
    IF template = TemplateMissing
    THEN [raised |-> FALSE, value |-> NULL,
          log |-> <<[level |-> "warning", event |-> "template not found"]>>]
    ELSE [raised |-> FALSE, value |-> render_to_string(template, context),
          log |-> <<>>]

\* _render_template: the content, None with a warning for a missing html
\* template, EmailTemplateNotFoundError for a missing txt template
_render_template(template, extension, context) ==
    IF template = TemplateMissing
    THEN IF extension = "html"
         THEN [raised |-> FALSE, value |-> NULL,
               log |-> <<[level |-> "warning", event |-> "template not found"]>>]
         ELSE [raised |-> TRUE, value |-> NULL, log |-> <<>>]
    ELSE [raised |-> FALSE, value |-> render_to_string(template, context),
          log |-> <<>>]

\* the X-Priority and Importance headers
_set_priority_headers(priority) ==
    IF priority = "high" THEN [x_priority |-> "1", importance |-> "high"]
    ELSE IF priority = "normal" THEN [x_priority |-> "3", importance |-> "normal"]
    ELSE [x_priority |-> "5", importance |-> "low"]

\* EmailMultiAlternatives with the alternative attached when html_content is
\* truthy, and the priority headers
EmailMultiAlternatives(to, text_content, html_content, priority) ==
    [handed |-> TRUE,
     to |-> IF "str" \in DOMAIN to THEN <<to.str>> ELSE to.list,
     body |-> text_content,
     alternatives |-> IF html_content \in {NULL, <<>>}
                      THEN <<>>
                      ELSE <<[content |-> html_content, mimetype |-> "text/html"]>>,
     headers |-> _set_priority_headers(priority)]

\* email.send(fail_silently=...): "sent" when the transport accepts the
\* message; when the transport fails, "raised", or with fail_silently on a
\* backend that quashes the error, "quashed" (the call returns 0)
email_send(fail_silently, transport, quashes) ==
    IF transport = "accepts" THEN "sent"
    ELSE IF fail_silently /\ quashes THEN "quashed"
    ELSE "raised"

\* the call has ended: the context the templates were rendered with, what
\* was handed to the transport, whether the transport accepted it, what was
\* returned or raised, what was logged
MailOutcome(call, full_context, message, delivered, returned, raised, log) ==
    [call EXCEPT !.stage = "returned"] @@
    [full_context |-> full_context, message |-> message, delivered |-> delivered,
     returned |-> returned, raised |-> raised, log |-> log]

\* EmailService.send
send(call, quashes) ==
    LET full_context == _build_context(call.context)
        html == _render_template(call.html, "html", full_context)
        text == _render_template(call.txt, "txt", full_context)
        email == EmailMultiAlternatives(call.to, text.value, html.value, call.priority)
        outcome == email_send(call.fail_silently, call.transport, quashes)
    IN  IF text.raised
        THEN MailOutcome(call, full_context, NoMessage, FALSE, "none",
                         "EmailTemplateNotFoundError", html.log)
        ELSE IF outcome = "raised"
        THEN MailOutcome(call, full_context, email, FALSE,
                 IF call.fail_silently THEN "False" ELSE "none",
                 IF call.fail_silently THEN "none" ELSE "EmailSendError",
                 html.log \o text.log
                     \o <<[level |-> "error", event |-> "failed to send"]>>)
        ELSE MailOutcome(call, full_context, email, outcome = "sent", "True", "none",
                 html.log \o text.log
                     \o <<[level |-> "info", event |-> "sent successfully"]>>)

\* a call of send runs to its end
EmailServiceSend(quashes) ==
    /\ mail.stage = "called"
    /\ mail' = send(mail, quashes)
    /\ UNCHANGED <<users, companies, tokens, now, resp, outbox, issued,
                   inflight, mailbox>>

-----------------------------------------------------------------------------
(* get_email_service: the module-level default EmailService, called by      *)
(* request threads                                                          *)

ServiceThreads == 1..MaxThreads

\* _default_service is None
NoService == 0

\* the module after import: no default service, no call in progress
ServiceModule ==
    [stage |-> "module",
     _default_service |-> NoService,
     constructed |-> 0,
     threads |-> [t \in ServiceThreads |-> [pc |-> "idle", returned |-> NoService]]]

\* thread t calls get_email_service
ServiceCall(t) ==
    /\ mail.threads[t].pc = "idle"
    /\ mail' = [mail EXCEPT !.threads[t].pc = "test"]
    /\ UNCHANGED <<users, companies, tokens, now, resp, outbox, issued,
                   inflight, mailbox>>

\* if _default_service is None
ServiceTest(t) ==
    /\ mail.threads[t].pc = "test"
    /\ mail' = [mail EXCEPT
                    !.threads[t].pc = IF mail._default_service = NoService
                                      THEN "construct" ELSE "return"]
    /\ UNCHANGED <<users, companies, tokens, now, resp, outbox, issued,
                   inflight, mailbox>>

\* _default_service = EmailService(): the instances are numbered in the
\* order of their construction
ServiceConstruct(t) ==
    /\ mail.threads[t].pc = "construct"
    /\ mail' = [mail EXCEPT
                    !.constructed = @ + 1,
                    !._default_service = mail.constructed + 1,
                    !.threads[t].pc = "return"]
    /\ UNCHANGED <<users, companies, tokens, now, resp, outbox, issued,
                   inflight, mailbox>>

\* return _default_service
ServiceReturn(t) ==
    /\ mail.threads[t].pc = "return"
    /\ mail' = [mail EXCEPT
                    !.threads[t] = [pc |-> "idle",
                                    returned |-> mail._default_service]]
    /\ UNCHANGED <<users, companies, tokens, now, resp, outbox, issued,
                   inflight, mailbox>>

-----------------------------------------------------------------------------
(* The environment *)

\* time passes
Tick(d) ==
    /\ now + d <= MaxTime
    /\ now' = now + d
    /\ resp' = NoResponse
    /\ outbox' = <<>>
    /\ UNCHANGED <<users, companies, tokens, issued, inflight, mailbox, mail>>

\* an account is deactivated (is_active cleared and saved)
SetInactive(pk) ==
    /\ pk \in 1..Len(users)
    /\ users[pk].is_active
    /\ users' = [users EXCEPT ![pk].is_active = FALSE]
    /\ resp' = NoResponse
    /\ outbox' = <<>>
    /\ UNCHANGED <<companies, tokens, now, issued, inflight, mailbox, mail>>

\* the owner of an account receives the password-reset email that was just
\* sent and keeps its link
ReceiveResetMail ==
    /\ Len(outbox) = 1
    /\ outbox[1].template_name = "auth/password_reset"
    /\ Cardinality(mailbox) < MaxLinks
    /\ mailbox' = mailbox \cup
            {[uid |-> outbox[1].context.password_reset_url.uid,
              token |-> outbox[1].context.password_reset_url.token,
              stale |-> FALSE]}
    /\ resp' = NoResponse
    /\ outbox' = <<>>
    /\ UNCHANGED <<users, companies, tokens, now, issued, inflight, mail>>

-----------------------------------------------------------------------------
(* The specification of complete, non-interleaved requests *)

Init ==
    /\ users = <<>>
    /\ companies = <<>>
    /\ tokens = {}
    /\ now = 0
    /\ resp = NoResponse
    /\ outbox = <<>>
    /\ issued = <<>>
    /\ inflight = EmptyBag
    /\ mailbox = {}
    /\ mail = NoCall

\* the values of an input the handler reads only on some paths: all of them
\* on those paths, one of them on the others
ReadOnlyIf(read, S) == IF read THEN S ELSE {CHOOSE x \in S : TRUE}

\* a registration request with these fields, whatever code is drawn,
\* whether the transport accepts the email and whichever status answers
RegisterRequest(name, email, password) ==
    LET saves == RegisterValid(users, name, email, password)
    IN  \E drawn \in ReadOnlyIf(saves, DrawnCodes),
           ok \in ReadOnlyIf(saves, BOOLEAN),
           status \in ReadOnlyIf(saves, RegisterStatuses) :
            Register(name, email, password, drawn, ok, status)

Next ==
    \/ \E name \in RegisterNames, email \in RegisterEmails,
          password \in RegisterPasswords :
            RegisterRequest(name, email, password)
    \/ \E email \in LoginEmails, password \in LoginPasswords : Login(email, password)
    \/ \E email \in RequestEmails, code \in RequestCodes : VerifyEmail(email, code)
    \/ \E email \in RequestEmails :
         LET generates == ResendGenerates(users, email)
         IN  \E drawn \in ReadOnlyIf(generates, DrawnCodes),
                ok \in ReadOnlyIf(generates, BOOLEAN) :
                    ResendVerification(email, drawn, ok)
    \/ \E email \in RequestEmails :
         \E ok \in ReadOnlyIf(PasswordResetSends(users, email), BOOLEAN) :
                PasswordReset(email, ok)
    \/ \E d \in TickSteps : Tick(d)
    \/ \E pk \in 1..Len(users) : SetInactive(pk)

Spec == Init /\ [][Next]_vars

-----------------------------------------------------------------------------------------------------------------------------------------------------
(* The specification of interleaved requests.  A request that writes is     *)
(* split at its database operations: what it has read is held in inflight   *)
(* while other requests take their steps.                                   *)

ConcNames == {NameJ}
ConcEmails == {EmailA, EmailUpperA, EmailB}
ConcPasswords == {PasswordGood}
ConcCodes == DrawnCodes \cup {CodeShort}

\* a step that answers no request
NoAnswer ==
    /\ resp' = NoResponse
    /\ outbox' = <<>>

\* whether one more request can be taken up
CanBegin == BagCardinality(inflight) < MaxInflight

\* a registration that has passed is_valid(), with its validated data
RegisterPending(name, email, password) ==
    [op |-> "register", name |-> name, email |-> email, password |-> password]

\* a verify-email request that has passed the checks, with the user object
\* it loaded, and the call it has reached
VerifyPending(stage, pk, user) ==
    [op |-> "verify", stage |-> stage, pk |-> pk, user |-> user]

\* POST /api/auth/registration/ up to the end of is_valid(): a request that
\* is not valid is answered 400, a valid one goes on to save() with its
\* validated data
RegisterBegin(name, email, password) ==
    /\ CanBegin
    /\ UNCHANGED <<mailbox, mail>>
    /\ IF RegisterValid(users, name, email, password)
       THEN /\ inflight' = inflight (+) SetToBag(
                              {RegisterPending(name, validate_email(email), password)})
            /\ NoAnswer
            /\ UNCHANGED <<users, companies, tokens, now, issued>>
       ELSE /\ RegisterRejected(name, email, password)
            /\ UNCHANGED inflight

\* CustomRegisterSerializer.save of a registration r that passed is_valid(),
\* and the response
RegisterFinish(r, drawn, ok, status) ==
    /\ BagIn(r, inflight)
    /\ UNCHANGED <<mailbox, mail>>
    /\ r.op = "register"
    /\ RegisterSave(r.name, r.email, r.password, drawn, ok, status)
    /\ inflight' = inflight (-) SetToBag({r})

\* POST /api/auth/verify-email/ up to the checks of the loaded user: a
\* request that fails one is answered 400, one that passes goes on to
\* user.verify_email() with the user object it loaded
VerifyBegin(email, code) ==
    /\ CanBegin
    /\ UNCHANGED <<mailbox, mail>>
    /\ LET err == VerifyError(users, email, code, now)
           pk == FindByEmail(users, NormalizeEmail(email))
       IN  IF err # ""
           THEN /\ resp' = Response("verify", 400, [detail |-> err],
                                    IF VerifyRequestValid(email, code) THEN pk ELSE 0)
                /\ outbox' = <<>>
                /\ UNCHANGED inflight
           ELSE /\ inflight' = inflight (+) SetToBag(
                                  {VerifyPending("verify_email", pk, users[pk])})
                /\ NoAnswer
    /\ UNCHANGED <<users, companies, tokens, now, issued>>

\* user.verify_email() on the user object request r loaded: the save of its
\* three fields
VerifySave(r) ==
    /\ BagIn(r, inflight)
    /\ UNCHANGED <<mailbox, mail>>
    /\ r.op = "verify"
    /\ r.stage = "verify_email"
    /\ LET user == verify_email(r.user)
       IN  /\ users' = [users EXCEPT ![r.pk] = SaveVerifyFields(@, user)]
           /\ issued' = [issued EXCEPT ![r.pk] = Used]
           /\ inflight' = (inflight (-) SetToBag({r}))
                            (+) SetToBag({VerifyPending("get_or_create", r.pk, user)})
    /\ NoAnswer
    /\ UNCHANGED <<companies, tokens, now>>

\* Token.objects.get_or_create(user=user) of request r and the 200 response
VerifyRespond(r) ==
    /\ BagIn(r, inflight)
    /\ UNCHANGED <<mailbox, mail>>
    /\ r.op = "verify"
    /\ r.stage = "get_or_create"
    /\ tokens' = GetOrCreateToken(tokens, r.pk)
    /\ resp' = Response("verify", 200,
                        [detail |-> "Email verified successfully.",
                         key |-> r.pk],
                        r.pk)
    /\ outbox' = <<>>
    /\ inflight' = inflight (-) SetToBag({r})
    /\ UNCHANGED <<users, companies, now, issued>>

\* the save() of a pending registration r, whatever code is drawn, whether
\* the transport accepts the email and whichever status answers
RegisterFinishRequest(r) ==
    LET inserts == r.op = "register" /\ EmailUnique(users, r.email)
    IN  \E drawn \in ReadOnlyIf(inserts, DrawnCodes),
           ok \in ReadOnlyIf(inserts, BOOLEAN),
           status \in ReadOnlyIf(inserts, RegisterStatuses) :
            RegisterFinish(r, drawn, ok, status)

NextConc ==
    \/ \E name \in ConcNames, email \in ConcEmails, password \in ConcPasswords :
            RegisterBegin(name, email, password)
    \/ \E r \in BagToSet(inflight) : RegisterFinishRequest(r)
    \/ \E email \in ConcEmails, code \in ConcCodes : VerifyBegin(email, code)
    \/ \E r \in BagToSet(inflight) : VerifySave(r)
    \/ \E r \in BagToSet(inflight) : VerifyRespond(r)
    \/ \E d \in TickSteps : Tick(d)

SpecConc == Init /\ [][NextConc]_vars

-----------------------------------------------------------------------------
(* The specification of the password-reset workflow: complete requests of   *)
(* registration, password-reset request and password-reset confirm          *)

ResetEmails == {EmailA, EmailB}

\* the verification code plays no part in this workflow: one draw
ResetDrawn == [i \in 1..CODE_LENGTH |-> DIGITS[1]]

\* the tokens the requests carry: none, one never issued, those of the links
\* received, those make_token returns now
RequestTokens ==
    {MissingToken, GarbageToken}
    \cup {l.token : l \in mailbox}
    \cup {make_token(pk, users[pk]) : pk \in 1..Len(users)}

\* a password-reset confirm request with this uid and new password and any
\* token; the token is compared only when the uid is that of a user
ConfirmRequest(uid, new_password) ==
    \E token \in IF ConfirmUser(users, uid) # 0
                 THEN RequestTokens
                 ELSE {MissingToken, GarbageToken} :
        PasswordResetConfirm(uid, token, new_password)

NextReset ==
    \/ \E name \in ConcNames, email \in ResetEmails, password \in ConcPasswords,
          status \in RegisterStatuses :
            Register(name, email, password, ResetDrawn, TRUE, status)
    \/ \E email \in ResetEmails :
         \E ok \in ReadOnlyIf(PasswordResetSends(users, email), BOOLEAN) :
                PasswordReset(email, ok)
    \/ ReceiveResetMail
    \/ \E uid \in ConfirmUids, new_password \in ConfirmPasswords :
            ConfirmRequest(uid, new_password)

SpecReset == Init /\ [][NextReset]_vars

-----------------------------------------------------------------------------
(* The specification of the company workflow: interleaved registrations,    *)
(* email verification, and GET and PATCH of my-company                      *)

CompanyEmails == {EmailA, EmailB}

\* the request data of a PATCH by pk: read only when pk has a company
PatchRequestData(pk) == ReadOnlyIf(MyCompany(companies, pk) > 0, PatchData)

\* a registration in flight runs to its end; the verification code plays no
\* part in this workflow: one draw, and the email is sent
CompanyRegisterFinish(r) ==
    /\ r.op = "register"
    /\ \E status \in ReadOnlyIf(EmailUnique(users, r.email), RegisterStatuses) :
            RegisterFinish(r, ResetDrawn, TRUE, status)

NextCompany ==
    \/ \E name \in ConcNames, email \in CompanyEmails, password \in ConcPasswords :
            RegisterBegin(name, email, password)
    \/ \E r \in BagToSet(inflight) : CompanyRegisterFinish(r)
    \/ \E email \in CompanyEmails : VerifyEmail(email, ResetDrawn)
    \/ \E email \in CompanyEmails :
            CreateUserWithToken(email, PasswordGood, NameJ)
    \/ \E pk \in 1..Len(users) : GetMyCompany(pk)
    \/ \E pk \in 1..Len(users) :
            \E data \in PatchRequestData(pk) : PatchMyCompany(pk, data)
    \/ Tick(VERIFICATION_CODE_EXPIRY_MINUTES)

SpecCompany == Init /\ [][NextCompany]_vars

-----------------------------------------------------------------------------
(* The specification of the my-company endpoint: registrations one at a     *)
(* time, email verification, and GET and PATCH of my-company                *)

NextMyCompany ==
    \/ \E email \in CompanyEmails, status \in RegisterStatuses :
            Register(NameJ, email, PasswordGood, ResetDrawn, TRUE, status)
    \/ \E email \in CompanyEmails : VerifyEmail(email, ResetDrawn)
    \/ \E email \in CompanyEmails :
            CreateUserWithToken(email, PasswordGood, NameJ)
    \/ \E pk \in 1..Len(users) : GetMyCompany(pk)
    \/ \E pk \in 1..Len(users) :
            \E data \in PatchRequestData(pk) : PatchMyCompany(pk, data)
    \/ Tick(VERIFICATION_CODE_EXPIRY_MINUTES)

SpecMyCompany == Init /\ [][NextMyCompany]_vars

-----------------------------------------------------------------------------
(* The specification of EmailService.send: one call, with any arguments,    *)
(* templates and transport                                                  *)

InitEmail ==
    /\ users = <<>>
    /\ companies = <<>>
    /\ tokens = {}
    /\ now = 0
    /\ resp = NoResponse
    /\ outbox = <<>>
    /\ issued = <<>>
    /\ inflight = EmptyBag
    /\ mailbox = {}
    /\ mail \in MailCalls

\* whether the backend quashes the error is read only when the transport
\* fails under fail_silently
NextEmail ==
    \E quashes \in ReadOnlyIf(/\ mail.stage = "called"
                              /\ mail.fail_silently
                              /\ mail.transport = "fails", BOOLEAN) :
        EmailServiceSend(quashes)

SpecEmail == InitEmail /\ [][NextEmail]_vars

-----------------------------------------------------------------------------
(* The specification of the requests for one account, interleaved: verify-  *)
(* email and password-reset confirm are split at their database operations  *)

\* a password-reset confirm request that has passed check_token, with the
\* user object it loaded
ConfirmPending(pk, user, new_password) ==
    [op |-> "confirm", pk |-> pk, user |-> user, new_password |-> new_password]

\* user.save() without update_fields: every column of the row is written
\* from the user object
SaveAllFields(row, user) == user

\* POST /api/auth/password/reset/confirm/ up to check_token: a request that
\* fails is answered 400, one that passes goes on to set_password and save
\* with the user object it loaded
ConfirmBegin(uid, token, new_password) ==
    /\ CanBegin
    /\ LET pk == ConfirmUser(users, uid)
       IN  IF ConfirmAccepted(users, uid, token, new_password)
           THEN /\ users[pk].password_salt < MaxPasswordChanges
                /\ inflight' = inflight (+) SetToBag(
                                  {ConfirmPending(pk, users[pk], new_password)})
                /\ NoAnswer
           ELSE /\ resp' = PasswordResetConfirmResponse(users, uid, token, new_password)
                /\ outbox' = <<>>
                /\ UNCHANGED inflight
    /\ UNCHANGED <<users, companies, tokens, now, issued, mailbox, mail>>

\* user.set_password(new_password), user.save() of request r and the 200
\* response
ConfirmSave(r) ==
    /\ BagIn(r, inflight)
    /\ r.op = "confirm"
    /\ users' = [users EXCEPT
                    ![r.pk] = SaveAllFields(@, set_password(r.user, r.new_password))]
    /\ mailbox' = MarkStale(mailbox, r.pk)
    /\ inflight' = inflight (-) SetToBag({r})
    /\ resp' = Response("confirm", 200,
                        [detail |-> "Password has been reset successfully."], r.pk)
    /\ outbox' = <<>>
    /\ UNCHANGED <<companies, tokens, now, issued, mail>>

\* a resend request that has loaded an unverified user, with the user object
ResendPending(pk, user) == [op |-> "resend", pk |-> pk, user |-> user]

\* POST /api/auth/resend-verification/ up to generate_verification_code: a
\* request that does not reach it is answered at once, one that does goes on
\* with the user object it loaded
ResendBegin(email) ==
    /\ CanBegin
    /\ IF ResendGenerates(users, email)
       THEN LET pk == FindByEmail(users, NormalizeEmail(email))
            IN  /\ inflight' = inflight (+) SetToBag({ResendPending(pk, users[pk])})
                /\ NoAnswer
                /\ UNCHANGED <<users, companies, tokens, now, issued, mailbox, mail>>
       ELSE ResendVerification(email, NULL, TRUE)

\* user.generate_verification_code() of request r, the email and the response
ResendSave(r, drawn, ok) ==
    /\ BagIn(r, inflight)
    /\ r.op = "resend"
    /\ LET user == generate_verification_code(r.user, drawn, now)
       IN  /\ users' = [users EXCEPT ![r.pk] = SaveCodeFields(@, user)]
           /\ issued' = [issued EXCEPT
                            ![r.pk] = [code |-> drawn, at |-> now, used |-> FALSE]]
           /\ outbox' = <<VerifyMail(user, drawn)>>
           /\ resp' = IF ok
                      THEN Response("resend", 200,
                                    [detail |-> "Verification code sent."], r.pk)
                      ELSE ServerError("resend", r.pk)
    /\ inflight' = inflight (-) SetToBag({r})
    /\ UNCHANGED <<companies, tokens, now, mailbox, mail>>

RaceEmails == {EmailA}
RacePasswords == {PasswordGood, PasswordOther}

NextRace ==
    \/ \E email \in RaceEmails, status \in RegisterStatuses :
            Register(NameJ, email, PasswordGood, ResetDrawn, TRUE, status)
    \/ \E email \in RaceEmails, password \in RacePasswords : Login(email, password)
    \/ \E email \in RaceEmails : VerifyBegin(email, ResetDrawn)
    \/ \E r \in BagToSet(inflight) : VerifySave(r)
    \/ \E r \in BagToSet(inflight) : VerifyRespond(r)
    \/ \E email \in RaceEmails : ResendBegin(email)
    \/ \E r \in BagToSet(inflight) : ResendSave(r, ResetDrawn, TRUE)
    \/ \E email \in RaceEmails : PasswordReset(email, TRUE)
    \/ \E uid \in {urlsafe_base64_encode(PkToStr(1))}, new_password \in RacePasswords :
         \E token \in IF ConfirmUser(users, uid) # 0
                      THEN RequestTokens
                      ELSE {MissingToken} :
            ConfirmBegin(uid, token, new_password)
    \/ \E r \in BagToSet(inflight) : ConfirmSave(r)

SpecRace == Init /\ [][NextRace]_vars

-----------------------------------------------------------------------------
(* The specification of complete requests to every endpoint of the users    *)
(* app                                                                      *)

ApiEmails == {EmailA, EmailB}
ApiLoginPasswords == {PasswordGood, PasswordOther}
ApiNewPasswords == {PasswordShort, PasswordOther}
ApiUids == {urlsafe_base64_encode(PkToStr(1)), urlsafe_base64_encode(PkToStr(2))}

NextApi ==
    \/ \E email \in ApiEmails, drawn \in DrawnCodes, ok \in BOOLEAN :
            Register(NameJ, email, PasswordGood, drawn, ok, 201)
    \/ \E email \in ApiEmails, password \in ApiLoginPasswords : Login(email, password)
    \/ \E email \in ApiEmails, code \in DrawnCodes : VerifyEmail(email, code)
    \/ \E email \in ApiEmails :
         LET generates == ResendGenerates(users, email)
         IN  \E drawn \in ReadOnlyIf(generates, DrawnCodes),
                ok \in ReadOnlyIf(generates, BOOLEAN) :
                    ResendVerification(email, drawn, ok)
    \/ \E email \in ApiEmails :
         \E ok \in ReadOnlyIf(PasswordResetSends(users, email), BOOLEAN) :
                PasswordReset(email, ok)
    \/ \E uid \in ApiUids, new_password \in ApiNewPasswords :
            ConfirmRequest(uid, new_password)
    \/ \E d \in TickSteps : Tick(d)

SpecApi == Init /\ [][NextApi]_vars

-----------------------------------------------------------------------------
(* The specification of get_email_service called by several threads, each   *)
(* any number of times                                                      *)

InitService ==
    /\ users = <<>>
    /\ companies = <<>>
    /\ tokens = {}
    /\ now = 0
    /\ resp = NoResponse
    /\ outbox = <<>>
    /\ issued = <<>>
    /\ inflight = EmptyBag
    /\ mailbox = {}
    /\ mail = ServiceModule

NextService ==
    \/ \E t \in ServiceThreads : ServiceCall(t)
    \/ \E t \in ServiceThreads : ServiceTest(t)
    \/ \E t \in ServiceThreads : ServiceConstruct(t)
    \/ \E t \in ServiceThreads : ServiceReturn(t)

SpecService == InitService /\ [][NextService]_vars

-----
(* The claims *)

DecimalDigits == {"0", "1", "2", "3", "4", "5", "6", "7", "8", "9"}

\* C1: while neither generate_verification_code nor verify_email has run
\* since a code was generated at time t, is_verification_code_valid(c) at
\* time t' is true exactly when c is that code and t' - t <= 15 minutes;
\* every generated code is a string of exactly 6 decimal digits.
C1_CodeValidExactlyWithinExpiry ==
    \A pk \in 1..Len(users) :
        issued[pk].code # NULL =>
            /\ Len(issued[pk].code) = 6
            /\ \A i \in 1..Len(issued[pk].code) : issued[pk].code[i] \in DecimalDigits
            /\ \A c \in RequestCodes \ {NULL} :
                    is_verification_code_valid(users[pk], c, now)
                        <=> (c = issued[pk].code /\ now - issued[pk].at <= 15)

\* a code generated exactly 15 minutes ago is still accepted
C1_Witness ==
    \E pk \in 1..Len(users) :
        /\ issued[pk].code # NULL
        /\ now - issued[pk].at = 15
        /\ is_verification_code_valid(users[pk], issued[pk].code, now)

\* the verify-email requests C2 is about: the email of an existing
\* unverified user with the code stored for that user, not yet expired
C2_Succeeds(email, code) ==
    LET pk == FindByEmail(users, Lower(email))
    IN  /\ pk # 0
        /\ ~users[pk].is_email_verified
        /\ users[pk].email_verification_code = code
        /\ now - users[pk].email_verification_code_created_at <= 15

\* such a request passes the checks of the view and goes on to verify_email
C2_Accepted ==
    \A email \in ConcEmails, code \in ConcCodes :
        (C2_Succeeds(email, code) /\ VerifyBegin(email, code)) =>
            \E r \in BagToSet(inflight') :
                /\ r.op = "verify"
                /\ r.pk = FindByEmail(users, Lower(email))
                /\ CopiesIn(r, inflight') = CopiesIn(r, inflight) + 1

\* when verify_email has saved, the user is verified and has neither a code
\* nor a timestamp
C2_Verified ==
    \A r \in BagToSet(inflight) :
        VerifySave(r) =>
            /\ users'[r.pk].is_email_verified
            /\ users'[r.pk].email_verification_code = NULL
            /\ users'[r.pk].email_verification_code_created_at = NoTime

\* request r is answered 200 with the key of a token of the user
C2_AnsweredWithKey(r) ==
    /\ resp'.status = 200
    /\ resp'.body.key = r.pk
    /\ resp'.body.key \in tokens'
    /\ users'[r.pk].is_email_verified
    /\ users'[r.pk].email_verification_code = NULL
    /\ users'[r.pk].email_verification_code_created_at = NoTime

\* C2 as stated: a verify-email request with the email of an existing
\* unverified user and that user's stored, unexpired code is answered 200
\* with a token key of that user that this request has issued; afterwards
\* the user is verified and has neither a code nor a timestamp.
C2_VerifyIssuesToken_AsStated ==
    [][/\ C2_Accepted
       /\ C2_Verified
       /\ \A r \in BagToSet(inflight) :
            VerifyRespond(r) =>
                /\ C2_AnsweredWithKey(r)
                /\ r.pk \notin tokens]_vars

\* C2, amended: a verify-email request with the email of an existing
\* unverified user and that user's stored, unexpired code is answered 200
\* with a token key of that user: a token this request has issued when the
\* user had none, the token the user already has otherwise; after
\* verify_email the user is verified and has neither a code nor a timestamp.
C2_VerifyReturnsUsersToken ==
    [][/\ C2_Accepted
       /\ C2_Verified
       /\ \A r \in BagToSet(inflight) :
            VerifyRespond(r) =>
                /\ C2_AnsweredWithKey(r)
                /\ tokens' = tokens \cup {r.pk}]_vars

\* a verify-email request was answered 200 with the user's token while a
\* second accepted verify-email request of the same user has yet to reach
\* get_or_create
C2_Witness ==
    /\ resp.op = "verify"
    /\ resp.status = 200
    /\ resp.body.key = resp.user
    /\ resp.user \in tokens
    /\ users[resp.user].is_email_verified
    /\ \E r \in BagToSet(inflight) :
        /\ r.op = "verify"
        /\ r.pk = resp.user

\* the cases in which C3 says a verify-email request fails
C3_MustFail(email, code) ==
    LET pk == FindByEmail(users, Lower(email))
    IN  \/ pk = 0
        \/ users[pk].is_email_verified
        \/ users[pk].email_verification_code # code
        \/ now - users[pk].email_verification_code_created_at > 15
        \/ code = NULL
        \/ Len(code) # 6

\* the step answers 400 without a key and leaves users and tokens as they were
C3_RejectedWithoutEffect ==
    /\ resp'.status = 400
    /\ "key" \notin DOMAIN resp'.body
    /\ users' = users
    /\ tokens' = tokens

\* C3: a verify-email request for an unknown email, a verified user, a code
\* that does not match, a code older than 15 minutes or a code that is not
\* 6 characters long is answered 400, changes no user field and creates or
\* returns no token.
\* (stated on the steps that do have an effect: none of them is a
\* verify-email request of one of these cases)
C3_VerifyFailureHasNoEffect ==
    [][(resp'.op = "verify" /\ ~C3_RejectedWithoutEffect) =>
        \A email \in RequestEmails, code \in RequestCodes :
            VerifyEmail(email, code) => ~C3_MustFail(email, code)]_vars

\* a verify-email request was answered 400 for an unverified user whose
\* stored code had expired
C3_Witness ==
    /\ resp.op = "verify"
    /\ resp.status = 400
    /\ resp.body.detail = "Invalid or expired verification code."
    /\ resp.user # 0
    /\ ~users[resp.user].is_email_verified
    /\ users[resp.user].email_verification_code # NULL
    /\ now - users[resp.user].email_verification_code_created_at > 15
    /\ resp.user \notin tokens

\* C4: once verify_email has run for a user and until a new code is
\* generated, is_verification_code_valid is false for the code that was used
\* and for every other code, and a further verify-email request with the
\* same email and any code, the used one included, is answered 400.
C4_UsedCodeIsRejected ==
    /\ [](\A pk \in 1..Len(users) :
            issued[pk].used =>
                \A c \in RequestCodes \ {NULL} :
                    ~is_verification_code_valid(users[pk], c, now))
    /\ [][(resp'.op = "verify" /\ resp'.status # 400) =>
            \A email \in RequestEmails, code \in RequestCodes :
                LET pk == FindByEmail(users, Lower(email))
                IN  VerifyEmail(email, code) => ~(pk # 0 /\ issued[pk].used)]_vars

\* a verify-email request for a user who has verified before was answered 400
C4_Witness ==
    /\ resp.op = "verify"
    /\ resp.status = 400
    /\ resp.user # 0
    /\ issued[resp.user].used
    /\ users[resp.user].is_email_verified

\* C5 as stated: a login with the email and password of a user is answered
\* 403 with email_not_verified and the email when the user is unverified,
\* and 200 with a token key when the user is verified.
C5_LoginByVerification_AsStated ==
    [][resp'.op = "login" =>
        \A email \in LoginEmails, password \in LoginPasswords :
            LET pk == FindByEmail(users, email)
            IN  (/\ Login(email, password)
                 /\ ~Falsy(email)
                 /\ pk # 0
                 /\ users[pk].password = password) =>
                    IF ~users[pk].is_email_verified
                    THEN /\ resp'.status = 403
                         /\ resp'.body.email_not_verified = TRUE
                         /\ resp'.body.email = users[pk].email
                    ELSE /\ resp'.status = 200
                         /\ resp'.body.key \in tokens']_vars

\* C5, amended: a login with the email and password of an active user is
\* answered 403 with email_not_verified and the email when the user is
\* unverified, and 200 with a token key when the user is verified.
C5_LoginByVerification ==
    [][resp'.op = "login" =>
        \A email \in LoginEmails, password \in LoginPasswords :
            LET pk == FindByEmail(users, email)
            IN  (/\ Login(email, password)
                 /\ ~Falsy(email)
                 /\ pk # 0
                 /\ users[pk].password = password
                 /\ users[pk].is_active) =>
                    IF ~users[pk].is_email_verified
                    THEN /\ resp'.status = 403
                         /\ resp'.body.email_not_verified = TRUE
                         /\ resp'.body.email = users[pk].email
                    ELSE /\ resp'.status = 200
                         /\ resp'.body.key \in tokens']_vars

\* a login of an active, unverified user was answered 403
C5_Witness ==
    /\ resp.op = "login"
    /\ resp.status = 403
    /\ resp.user # 0
    /\ users[resp.user].is_active
    /\ ~users[resp.user].is_email_verified
    /\ resp.body.email = users[resp.user].email

\* the credentials C6 calls invalid
C6_InvalidCredentials(email, password) ==
    LET pk == FindByEmail(users, email)
    IN  \/ Falsy(email)
        \/ Falsy(password)
        \/ pk = 0
        \/ users[pk].password # password
        \/ ~users[pk].is_active

\* the users table with the verification flag of one user flipped
C6_FlipVerified(pk) == [users EXCEPT ![pk].is_email_verified = ~@]

\* C6: login answers 403 only when the credentials are valid and the account
\* is unverified; a wrong password, an unknown, missing or empty email, a
\* missing or empty password or an inactive account is answered 400, and
\* that response is the same whatever the verification flag of any account.
C6_InvalidLoginIgnoresVerification ==
    /\ [](\A email \in LoginEmails, password \in LoginPasswords :
            C6_InvalidCredentials(email, password) =>
                \A pk \in 1..Len(users) :
                    LoginResponse(C6_FlipVerified(pk), email, password)
                        = LoginResponse(users, email, password))
    /\ [][(resp'.op = "login" /\ ~(resp'.status = 400 /\ tokens' = tokens)) =>
            \A email \in LoginEmails, password \in LoginPasswords :
                Login(email, password) =>
                    /\ ~C6_InvalidCredentials(email, password)
                    /\ resp'.status = 403 =>
                            ~users[FindByEmail(users, email)].is_email_verified]_vars

\* a login of an inactive, verified account was answered 400
C6_Witness ==
    /\ resp.op = "login"
    /\ resp.status = 400
    /\ resp.user # 0
    /\ ~users[resp.user].is_active
    /\ users[resp.user].is_email_verified

\* a registration is turned down with 400 and inserts no user
C7_Rejected ==
    /\ resp'.op = "register"
    /\ resp'.status = 400
    /\ users' = users

\* C7: every stored email is lowercase and no two users have the same email
\* in every state, interleaved registrations for one email included; a
\* registration whose email equals, ignoring case, the email of a user it
\* finds is answered 400 and inserts nothing, and a registration whose email
\* was taken between its validation and its insert inserts nothing either.
C7_EmailsLowercaseAndUnique ==
    /\ [](\A i \in 1..Len(users) :
            /\ users[i].email = Lower(users[i].email)
            /\ \A j \in 1..Len(users) :
                 users[i].email = users[j].email => i = j)
    /\ [][~C7_Rejected =>
            \A name \in ConcNames, email \in ConcEmails,
               password \in ConcPasswords :
                RegisterBegin(name, email, password) =>
                    \A pk \in 1..Len(users) :
                        Lower(users[pk].email) # Lower(email)]_vars
    /\ [][\A r \in BagToSet(inflight) :
            (/\ r.op = "register"
             /\ \E pk \in 1..Len(users) :
                    Lower(users[pk].email) = Lower(r.email)) =>
                (RegisterFinishRequest(r) =>
                    /\ users' = users
                    /\ companies' = companies
                    /\ resp'.status \notin {200, 201, 204})]_vars

\* a registration for the email of the one existing user was answered 400
\* while another registration for that email, validated before the user was
\* inserted, has yet to reach its insert
C7_Witness ==
    /\ resp.op = "register"
    /\ resp.status = 400
    /\ resp.body.errors = {"email"}
    /\ Len(users) = 1
    /\ users[1].email = EmailA
    /\ \E r \in BagToSet(inflight) :
        /\ r.op = "register"
        /\ r.email = users[1].email

\* the email C8 expects to be stored for a registration email
C8_Lowercased(email) == IF email = EmailUpperA THEN EmailA ELSE email

\* C8: a successful registration with name n and email e creates exactly one
\* user, with e in lower case, unverified and with a stored 6-digit code;
\* exactly one company, named "n's Company", whose admin is that user and
\* whose members include that user; and sends exactly one email, to the
\* lowercased email, with template auth/verify_email and the stored code.
C8_RegistrationCreatesUserCompanyMail ==
    [][(resp'.op = "register" /\ resp'.status \in {201, 204}) =>
        \A name \in RegisterNames, email \in RegisterEmails,
           password \in RegisterPasswords :
            RegisterRequest(name, email, password) =>
                LET pk == Len(users) + 1
                    company == companies'[Len(companies')]
                IN  /\ Len(users') = Len(users) + 1
                    /\ SubSeq(users', 1, Len(users)) = users
                    /\ users'[pk].email = C8_Lowercased(email)
                    /\ users'[pk].name = name
                    /\ ~users'[pk].is_email_verified
                    /\ Len(users'[pk].email_verification_code) = 6
                    /\ \A i \in 1..6 :
                         users'[pk].email_verification_code[i] \in DecimalDigits
                    /\ Len(companies') = Len(companies) + 1
                    /\ SubSeq(companies', 1, Len(companies)) = companies
                    /\ company.name
                         = name \o <<"'", "s", " ", "C", "o", "m", "p", "a", "n", "y">>
                    /\ company.admin = pk
                    /\ pk \in company.members
                    /\ Len(outbox') = 1
                    /\ outbox'[1].to = C8_Lowercased(email)
                    /\ outbox'[1].template_name = "auth/verify_email"
                    /\ outbox'[1].context.verification_code
                         = users'[pk].email_verification_code]_vars

\* a second registration succeeded: two users, two companies, one email to
\* the new user
C8_Witness ==
    /\ resp.op = "register"
    /\ resp.status \in {201, 204}
    /\ resp.user = 2
    /\ Len(users) = 2
    /\ Len(companies) = 2
    /\ companies[2].admin = 2
    /\ Len(outbox) = 1
    /\ outbox[1].to = users[2].email

\* the registration requests C9 says are rejected
C9_Invalid(name, email, password) ==
    \/ name = NULL
    \/ name = <<>>
    \/ email = NULL
    \/ \A i \in 1..Len(email) : email[i] # "@"
    \/ password = NULL
    \/ Len(password) < 8
    \/ \A i \in 1..Len(password) : password[i] \in DecimalDigits

\* the step answers 400, creates no user and no company and sends no email
C9_RejectedWithoutEffect ==
    /\ resp'.status = 400
    /\ users' = users
    /\ companies' = companies
    /\ outbox' = <<>>

\* C9: a registration request without a name, an email or a password1, with
\* an empty name, a malformed email or a password the password validators
\* reject is answered 400 and creates no user, no company and sends no email.
\* (stated on the steps that do have an effect: none of them is such a
\* registration request)
C9_InvalidRegistrationHasNoEffect ==
    [][(resp'.op = "register" /\ ~C9_RejectedWithoutEffect) =>
        \A name \in RegisterNames, email \in RegisterEmails,
           password \in RegisterPasswords :
            C9_Invalid(name, email, password) =>
                ~RegisterRequest(name, email, password)]_vars

\* a registration was rejected for its name alone
C9_Witness ==
    /\ resp.op = "register"
    /\ resp.status = 400
    /\ resp.body.errors = {"name"}
    /\ outbox = <<>>
    /\ Len(users) = Len(companies)

\* the body the password-reset endpoint answers with
C10_Generic ==
    [detail |-> "If an account exists with this email, a password reset link has been sent."]

\* C10: the password-reset request endpoint answers every well-formed email
\* with 200 and the same body, whether or not a user with that email exists
\* and whatever the outcome of the email dispatch.
C10_ResetResponseIsUniform ==
    [][resp'.op = "reset" =>
        \A email \in {EmailA, EmailUpperA, EmailB}, ok \in BOOLEAN :
            PasswordReset(email, ok) =>
                /\ resp'.status = 200
                /\ resp'.body = C10_Generic]_vars

\* the body the resend endpoint answers an unknown email with
C11_Generic ==
    [detail |-> "If an account exists with this email, a verification code has been sent."]

\* C11: the resend-verification endpoint answers every well-formed email
\* with 200 and the same body, whether or not a user with that email exists.
C11_ResendResponseIsUniform ==
    [][resp'.op = "resend" =>
        \A email \in {EmailA, EmailUpperA, EmailB}, drawn \in DrawnCodes :
            ResendVerification(email, drawn, TRUE) =>
                /\ resp'.status = 200
                /\ resp'.body = C11_Generic]_vars

\* C12: a resend for an unknown email (200) or for a verified user (400) and
\* a password-reset request for an unknown email change no user and send no
\* email; a resend for an existing unverified user and a reset request for
\* any existing user send exactly one email, to the stored email of the user.
C12_EffectsOnlyForEligibleUsers ==
    /\ [][resp'.op = "resend" =>
            \A email \in {EmailA, EmailUpperA, EmailB}, drawn \in DrawnCodes,
               ok \in BOOLEAN :
                ResendVerification(email, drawn, ok) =>
                    LET pk == FindByEmail(users, Lower(email))
                    IN  IF pk = 0
                        THEN /\ resp'.status = 200
                             /\ users' = users
                             /\ outbox' = <<>>
                        ELSE IF users[pk].is_email_verified
                        THEN /\ resp'.status = 400
                             /\ users' = users
                             /\ outbox' = <<>>
                        ELSE /\ Len(outbox') = 1
                             /\ outbox'[1].to = users[pk].email]_vars
    /\ [][resp'.op = "reset" =>
            \A email \in {EmailA, EmailUpperA, EmailB}, ok \in BOOLEAN :
                PasswordReset(email, ok) =>
                    LET pk == FindByEmail(users, Lower(email))
                    IN  IF pk = 0
                        THEN /\ users' = users
                             /\ outbox' = <<>>
                        ELSE /\ Len(outbox') = 1
                             /\ outbox'[1].to = users[pk].email]_vars

\* a password-reset request for a verified user sent one email, to the
\* stored email of that user
C12_Witness ==
    /\ resp.op = "reset"
    /\ resp.user # 0
    /\ users[resp.user].is_email_verified
    /\ Len(outbox) = 1
    /\ outbox[1].to = users[resp.user].email
    /\ outbox[1].template_name = "auth/password_reset"

\* C13: after a resend answered 200 for an existing unverified user the
\* stored code differs from the code stored before, its timestamp is the
\* time of the resend and the code in the email is the code now stored.
C13_ResendReplacesCode ==
    [][(resp'.op = "resend" /\ resp'.status = 200 /\ resp'.user # 0) =>
        LET pk == resp'.user
        IN  /\ users'[pk].email_verification_code # users[pk].email_verification_code
            /\ users'[pk].email_verification_code_created_at = now
            /\ Len(outbox') = 1
            /\ outbox'[1].context.verification_code
                 = users'[pk].email_verification_code]_vars

\* C14: once a password-reset confirm has succeeded for a user, every link
\* (uid, token) issued for that user before is answered 400, whatever new
\* password comes with it, so a link succeeds at most once.
C14_StaleLinksAreRejected ==
    \A l \in mailbox :
        l.stale =>
            \A new_password \in ConfirmPasswords :
                PasswordResetConfirmResponse(users, l.uid, l.token, new_password).status
                    = 400

\* a link issued before a reset that set the same password again was
\* answered 400
C14_Witness ==
    /\ resp.op = "confirm"
    /\ resp.status = 400
    /\ resp.body.detail = "Invalid or expired password reset link."
    /\ \E l \in mailbox :
        /\ l.stale
        /\ l.token.uid = resp.user
        /\ l.token.password = users[resp.user].password

\* what C15 requires for a 200: the uid is that of an existing user, the
\* token is the one of that user and the new password has 8 characters
C15_Accepts(uid, token, new_password) ==
    /\ \/ uid = <<"M", "Q">> /\ Len(users) >= 1
       \/ uid = <<"M", "g">> /\ Len(users) >= 2
    /\ token = make_token(IF uid = <<"M", "Q">> THEN 1 ELSE 2,
                          users[IF uid = <<"M", "Q">> THEN 1 ELSE 2])
    /\ new_password # NULL
    /\ Len(new_password) >= 8

\* C15: password-reset confirm answers 200 and sets the password of the user
\* to new_password exactly when the uid decodes to an existing user, the
\* token is valid for that user and new_password has at least 8 characters;
\* otherwise it answers 400 and no password changes.
C15_ConfirmSetsPasswordOrRejects ==
    /\ [](\A uid \in ConfirmUids, token \in ConfirmTokens,
             new_password \in ConfirmPasswords :
            PasswordResetConfirmResponse(users, uid, token, new_password).status
                = IF C15_Accepts(uid, token, new_password) THEN 200 ELSE 400)
    /\ [][(resp'.op = "confirm" /\ resp'.status = 200) =>
            \A uid \in {<<"M", "Q">>, <<"M", "g">>}, token \in RequestTokens,
               new_password \in ConfirmPasswords :
                PasswordResetConfirm(uid, token, new_password) =>
                    /\ C15_Accepts(uid, token, new_password)
                    /\ users'[resp'.user].password = new_password
                    /\ \A pk \in 1..Len(users) :
                         pk # resp'.user => users'[pk] = users[pk]]_vars
    /\ [][(resp'.op = "confirm" /\ resp'.status # 200) =>
            /\ resp'.status = 400
            /\ users' = users]_vars

\* a confirm was answered 200 and the user now has the new password
C15_Witness ==
    /\ resp.op = "confirm"
    /\ resp.status = 200
    /\ users[resp.user].password = PasswordOther
    /\ users[resp.user].password_salt = 1


\* the companies a user is the admin of
AdminOf(pk) == {c \in 1..Len(companies) : companies[c].admin = pk}

\* C16: in every state reached through registrations, interleaved or not,
\* and PATCH requests on my-company, each user is the admin of at most one
\* company.
C16_AtMostOneCompanyPerAdmin ==
    \A pk \in 1..Len(users) : Cardinality(AdminOf(pk)) <= 1

\* two registrations have created their companies, a PATCH has changed one of
\* them, and a further registration is in flight
C16_Witness ==
    /\ Len(companies) = 2
    /\ \E c \in 1..2 : companies[c].name = NameK
    /\ \E r \in BagToSet(inflight) : r.op = "register"

\* the company of the requester is the one the PATCH acts on
C17_Mine(pk) == MyCompany(companies, pk)

\* a PATCH that passes validation changes the name and the logo and nothing
\* else of the company
C17_PatchChangesOnlyNameAndLogo_AsStated ==
    [][(resp'.op = "patch_company" /\ resp'.status = 200) =>
        LET c == C17_Mine(resp'.user)
        IN  companies'[c] = [companies[c] EXCEPT
                                !.name = companies'[c].name,
                                !.logo = companies'[c].logo]]_vars

\* what a GET answers
C17_Get(pk) ==
    LET c == C17_Mine(pk)
    IN  /\ companies' = companies
        /\ IF c = 0
           THEN resp'.status = 404
           ELSE /\ resp'.status = 200
                /\ resp'.body.id = c
                /\ companies[c].admin = pk
                /\ resp'.body.name = companies[c].name
                /\ resp'.body.logo = companies[c].logo

\* what a PATCH with the data changes
C17_Patch(pk, data) ==
    LET c == C17_Mine(pk)
    IN  /\ Len(companies') = Len(companies)
        /\ \A d \in 1..Len(companies) : d # c => companies'[d] = companies[d]
        /\ users' = users
        /\ tokens' = tokens
        /\ c > 0 =>
            /\ companies'[c].admin = companies[c].admin
            /\ companies'[c].members = companies[c].members
            /\ companies'[c].created_at = companies[c].created_at
            /\ IF PatchErrors(data) # {}
               THEN /\ resp'.status = 400
                    /\ companies'[c] = companies[c]
               ELSE /\ resp'.status = 200
                    /\ companies'[c].name =
                            IF data.name = AbsentField
                            THEN companies[c].name ELSE data.name
                    /\ companies'[c].logo =
                            IF data.logo = AbsentField
                            THEN companies[c].logo ELSE data.logo
                    /\ companies'[c].updated_at = now

\* C17: for an authenticated requester, GET on my-company answers 200 with
\* the company whose admin is the requester and 404 when there is none; PATCH
\* changes only the name, the logo and the updated_at timestamp of that
\* company, never its admin, its members, its id, its created_at, or any other
\* company; a PATCH that fails validation is answered 400 and leaves the
\* company unchanged.
C17_MyCompanyGetAndPatch ==
    [][/\ resp'.op = "get_company" =>
            (GetMyCompany(resp'.user) => C17_Get(resp'.user))
       /\ resp'.op = "patch_company" =>
            \A data \in PatchRequestData(resp'.user) :
                PatchMyCompany(resp'.user, data) => C17_Patch(resp'.user, data)]_vars

\* a PATCH with a name and a logo has changed the company of the requester
\* some time after its creation
C17_Witness ==
    /\ resp.op = "patch_company"
    /\ resp.status = 200
    /\ resp.body.name = NameK
    /\ resp.body.logo = LogoImage
    /\ resp.body.updated_at > resp.body.created_at
    /\ companies[resp.body.id].admin = resp.user


\* the text of a call's txt template as send renders it
C18_Text(m) == render_to_string(m.txt, _build_context(m.context))

\* C18: EmailService.send tolerates a missing HTML template: with a text
\* template it raises no EmailTemplateNotFoundError and hands the transport a
\* message with the rendered text as its body and no alternative. A missing
\* text template is a hard failure: send raises EmailTemplateNotFoundError
\* and hands nothing to the transport, whatever fail_silently is.
C18_MissingTemplates ==
    mail.stage = "returned" =>
        /\ mail.txt = TemplateMissing =>
            /\ mail.raised = "EmailTemplateNotFoundError"
            /\ mail.returned = "none"
            /\ mail.message = NoMessage
        /\ (mail.txt # TemplateMissing /\ mail.html = TemplateMissing) =>
            /\ mail.raised # "EmailTemplateNotFoundError"
            /\ mail.message.handed
            /\ mail.message.body = C18_Text(mail)
            /\ mail.message.alternatives = <<>>

\* a call without html template has handed a text-only message to a
\* transport that accepted it
C18_Witness ==
    /\ mail.stage = "returned"
    /\ mail.html = TemplateMissing
    /\ mail.txt = TextTemplate
    /\ mail.message.handed
    /\ mail.message.alternatives = <<>>
    /\ mail.delivered

\* the last entry of the log of a call
C19_Logged(m) == m.log[Len(m.log)]

\* C19: EmailService.send returns True only if the email was sent; when the
\* transport fails it raises EmailSendError if fail_silently is false and
\* returns False without raising if fail_silently is true, and it logs the
\* failure, not a success.
C19_SendReportsFailure ==
    mail.stage = "returned" =>
        /\ mail.returned = "True" => mail.delivered
        /\ (mail.message # NoMessage /\ mail.transport = "fails") =>
            /\ IF mail.fail_silently
               THEN mail.returned = "False" /\ mail.raised = "none"
               ELSE mail.raised = "EmailSendError"
            /\ C19_Logged(mail).level = "error"


\* C20: verification is monotonic: a user whose is_email_verified is true has
\* it true after every step, under every interleaving of the requests for
\* that user in which verify-email and password-reset confirm read the user
\* and write it in separate steps.
C20_VerificationIsMonotonic ==
    [][\A pk \in 1..Len(users) :
        users[pk].is_email_verified => users'[pk].is_email_verified]_vars


\* the password-reset confirm requests in flight for user pk
C21_Confirms(pk) == {r \in BagToSet(inflight) : r.op = "confirm" /\ r.pk = pk}

\* C21: a verify-email or resend request never changes a user's password,
\* also when its read and its write interleave with a password-reset confirm
\* for the same user: the stored password changes only in the step in which
\* a confirm saves, and then to the new password of that confirm.
C21_PasswordChangedByConfirmOnly ==
    [][\A pk \in 1..Len(users) :
        (\/ users'[pk].password # users[pk].password
         \/ users'[pk].password_salt # users[pk].password_salt) =>
            /\ resp'.op = "confirm"
            /\ resp'.status = 200
            /\ resp'.user = pk
            /\ \E r \in C21_Confirms(pk) :
                    /\ users'[pk].password = r.new_password
                    /\ BagCardinality(inflight') < BagCardinality(inflight)]_vars

\* a verify-email request that loaded the user before a confirm saved the
\* new password has saved after it, and the stored password is the new one
C21_Witness ==
    \E r \in BagToSet(inflight) :
        /\ r.op = "verify"
        /\ r.stage = "get_or_create"
        /\ r.user.password = PasswordGood
        /\ r.user.password_salt # users[r.pk].password_salt
        /\ users[r.pk].password = PasswordOther


\* C22: in every state reached by complete requests, a user's verification
\* code is set exactly when its timestamp is set, and a verified user has
\* neither a code nor a timestamp.
C22_CodeAndTimestampTogether ==
    \A pk \in 1..Len(users) :
        /\ (users[pk].email_verification_code # NULL)
            <=> (users[pk].email_verification_code_created_at # NoTime)
        /\ users[pk].is_email_verified =>
            /\ users[pk].email_verification_code = NULL
            /\ users[pk].email_verification_code_created_at = NoTime

\* one user has verified and has reset the password since, the other holds a
\* code from a resend
C22_Witness ==
    /\ Len(users) = 2
    /\ users[1].is_email_verified
    /\ users[1].password = PasswordOther
    /\ ~users[2].is_email_verified
    /\ users[2].email_verification_code # NULL
    /\ users[2].email_verification_code_created_at > 0


\* a user row with every column but the password and its salt as before
C23_OnlyPasswordChanged(before, after) ==
    after = [before EXCEPT !.password = after.password,
                           !.password_salt = after.password_salt]

C24_VerifiedBy(pk) ==
    {r \in BagToSet(inflight) :
        /\ r.op = "verify"
        /\ r.pk = pk
        /\ r.stage = "get_or_create"
        /\ r.user.is_email_verified}

C25_HoldsFreshCode(pk, code) ==
    /\ pk # 0
    /\ ~users[pk].is_email_verified
    /\ users[pk].email_verification_code = code
    /\ users[pk].email_verification_code_created_at # NoTime
    /\ now <= users[pk].email_verification_code_created_at
                + VERIFICATION_CODE_EXPIRY_MINUTES

C26_Returned ==
    {mail.threads[t].returned : t \in ServiceThreads} \ {NoService}

\* C26: every call of get_email_service returns the same EmailService
\* instance and at most one default instance is ever constructed, also when
\* the first calls are made by several threads at once.
C26_OneDefaultService ==
    /\ mail.constructed <= 1
    /\ Cardinality(C26_Returned) <= 1


\* the keys of the site-wide defaults
C27_DefaultKeys == {"site_name", "site_url", "support_email", "current_year"}

\* C27: the context the templates are rendered with is the caller's context
\* merged over the site-wide defaults: site_name, site_url, support_email and
\* current_year are always present, every key of the caller is present with
\* the caller's value, also where it is the key of a default, and a default
\* key the caller does not pass has the default's value.
C27_CallerContextOverDefaults ==
    mail.stage = "returned" =>
        /\ C27_DefaultKeys \subseteq DOMAIN mail.full_context
        /\ DOMAIN mail.full_context = C27_DefaultKeys \cup DOMAIN mail.context
        /\ \A k \in DOMAIN mail.context : mail.full_context[k] = mail.context[k]
        /\ \A k \in C27_DefaultKeys \ DOMAIN mail.context :
                mail.full_context[k] = ContextDefaults[k]
        /\ (mail.message # NoMessage /\ "site_name" \in DOMAIN mail.context) =>
                mail.message.body[2] = mail.context.site_name

\* a call whose context has a key of its own and two keys of defaults has
\* handed over a message rendered with the caller's site name
C27_Witness ==
    /\ mail.stage = "returned"
    /\ DOMAIN mail.context = {"user_name", "site_name", "current_year"}
    /\ mail.full_context.site_name = "Acme"
    /\ mail.full_context.current_year = 1999
    /\ mail.full_context.site_url = ContextDefaults.site_url
    /\ mail.message # NoMessage
    /\ mail.message.body[2] = "Acme"
=============================================================================
